---- MODULE Spec2Model ----
(***************************************************************************)
(* A model of the OSG helper bots: osg_bot.py (pickup date -> delivery     *)
(* date -> earliest production date, ceiling rounding) and                 *)
(* osg_orders_bot.py (contractor cache -> delivery date -> earliest        *)
(* production date, truncation).                                           *)
(*                                                                         *)
(* Dates are proleptic Gregorian ordinals as in Python's datetime          *)
(* (0001-01-01 is 1).  Python floats are IEEE-754 binary64 values,         *)
(* modelled exactly: a 53-bit significand held in five 15-bit limbs.       *)
(* Strings are sequences of one-character strings.                         *)
(***************************************************************************)
EXTENDS Integers, Sequences, FiniteSets

(***************************************************************************)
(* Unsigned multi-limb integers: <<l1,..,l5>>, value = SUM l_i * Base^(i-1) *)
(***************************************************************************)
Base == 2^15

LZero == <<0, 0, 0, 0, 0>>

LFromInt(n) == <<n % Base, (n \div Base) % Base, n \div (Base * Base), 0, 0>>

\* The value of a limb tuple known to be below 2^31.
LToInt(x) == x[1] + Base * x[2] + Base * Base * x[3]

\* x * k for 0 <= k < Base (the result must fit the five limbs).
LMulSmall(x, k) ==
    LET p1 == x[1] * k
        p2 == x[2] * k + (p1 \div Base)
        p3 == x[3] * k + (p2 \div Base)
        p4 == x[4] * k + (p3 \div Base)
        p5 == x[5] * k + (p4 \div Base)
    IN  <<p1 % Base, p2 % Base, p3 % Base, p4 % Base, p5 % Base>>

\* x divided by d, 0 < d <= Base: the quotient q and the remainder r.
LDivSmall(x, d) ==
    LET t5 == x[5]
        t4 == (t5 % d) * Base + x[4]
        t3 == (t4 % d) * Base + x[3]
        t2 == (t3 % d) * Base + x[2]
        t1 == (t2 % d) * Base + x[1]
    IN  [q |-> <<t1 \div d, t2 \div d, t3 \div d, t4 \div d, t5 \div d>>,
         r |-> t1 % d]

\* x + y (the result must fit the five limbs).
LAdd(x, y) ==
    LET s1 == x[1] + y[1]
        s2 == x[2] + y[2] + (s1 \div Base)
        s3 == x[3] + y[3] + (s2 \div Base)
        s4 == x[4] + y[4] + (s3 \div Base)
        s5 == x[5] + y[5] + (s4 \div Base)
    IN  <<s1 % Base, s2 % Base, s3 % Base, s4 % Base, s5 % Base>>

\* -1, 0, 1 as x is below, equal to or above y.
LCmp(x, y) ==
    LET d == CHOOSE i \in 0..5 :
                 /\ (i > 0 => x[i] # y[i])
                 /\ \A j \in (i + 1)..5 : x[j] = y[j]
    IN  IF d = 0 THEN 0 ELSE IF x[d] < y[d] THEN -1 ELSE 1

\* x - y for x >= y.
LSub(x, y) ==
    LET d1 == x[1] - y[1]
        b1 == IF d1 < 0 THEN 1 ELSE 0
        d2 == x[2] - y[2] - b1
        b2 == IF d2 < 0 THEN 1 ELSE 0
        d3 == x[3] - y[3] - b2
        b3 == IF d3 < 0 THEN 1 ELSE 0
        d4 == x[4] - y[4] - b3
        b4 == IF d4 < 0 THEN 1 ELSE 0
        d5 == x[5] - y[5] - b4
    IN  <<d1 + b1 * Base, d2 + b2 * Base, d3 + b3 * Base, d4 + b4 * Base, d5>>

\* The number of bits of n, 0 <= n < Base.
SmallBitLen(n) == CHOOSE b \in 0..15 : (b = 0 \/ n >= 2^(b - 1)) /\ n < 2^b

\* The number of bits of x (0 for zero).
LBitLen(x) ==
    LET top == CHOOSE i \in 0..5 :
                   /\ (i > 0 => x[i] # 0)
                   /\ \A j \in (i + 1)..5 : x[j] = 0
    IN  IF top = 0 THEN 0 ELSE 15 * (top - 1) + SmallBitLen(x[top])

\* x * 2^k (the result must fit the five limbs).
LShl(x, k) ==
    LET w == k \div 15
        moved == [i \in 1..5 |-> IF i - w >= 1 THEN x[i - w] ELSE 0]
    IN  LMulSmall(moved, 2^(k % 15))

\* x \div 2^k, and whether any of the bits shifted out was set.
LShrSticky(x, k) ==
    LET w == k \div 15
        moved == [i \in 1..5 |-> IF i + w <= 5 THEN x[i + w] ELSE 0]
        lost == \E i \in 1..5 : i <= w /\ x[i] # 0
        dv == LDivSmall(moved, 2^(k % 15))
    IN  [q |-> dv.q, sticky |-> lost \/ dv.r # 0]

(***************************************************************************)
(* Python float (binary64): [sign, m, e] is sign * m * 2^e with            *)
(* 2^52 <= m < 2^53, or zero (sign = 0).  The values that occur here are   *)
(* far from the subnormal and overflow ranges.                             *)
(***************************************************************************)
FZero == [sign |-> 0, m |-> LZero, e |-> 0]

\* sign * n * 2^e rounded to the nearest binary64, ties to even (n > 0).
FRound(sign, n, e) ==
    LET len == LBitLen(n)
    IN  IF len <= 53
        THEN [sign |-> sign, m |-> LShl(n, 53 - len), e |-> e - (53 - len)]
        ELSE LET k == len - 53
                 pre == LShrSticky(n, k - 1)
                 halfBit == pre.q[1] % 2
                 kept == LDivSmall(pre.q, 2).q
                 up == halfBit = 1 /\ (pre.sticky \/ kept[1] % 2 = 1)
                 m1 == IF up THEN LAdd(kept, LFromInt(1)) ELSE kept
             IN  IF LBitLen(m1) = 54
                 THEN [sign |-> sign, m |-> LDivSmall(m1, 2).q, e |-> e + k + 1]
                 ELSE [sign |-> sign, m |-> m1, e |-> e + k]

Sgn(n) == IF n > 0 THEN 1 ELSE IF n < 0 THEN -1 ELSE 0

Abs(n) == IF n < 0 THEN -n ELSE n

\* a / 100 and a / 100.0 for an integer a, |a| < 2^13: the correctly rounded
\* quotient.  The quotient of |a| * 2^62 by 100 has at least 55 bits; a set
\* bit below it stands for a nonzero remainder.
FDiv100(a) ==
    IF a = 0 THEN FZero
    ELSE LET dv == LDivSmall(LShl(LFromInt(Abs(a)), 62), 100)
             n == LAdd(LMulSmall(dv.q, 2), LFromInt(IF dv.r # 0 THEN 1 ELSE 0))
         IN  FRound(Sgn(a), n, -63)

\* 1 - x for a float x with x.e <= 0 and x.e >= -62.
FOneMinus(x) ==
    IF x.sign = 0 THEN FRound(1, LFromInt(1), 0)
    ELSE LET one == LShl(LFromInt(1), -x.e)
         IN  IF x.sign < 0 THEN FRound(1, LAdd(one, x.m), x.e)
             ELSE LET c == LCmp(one, x.m)
                  IN  IF c = 0 THEN FZero
                      ELSE IF c > 0 THEN FRound(1, LSub(one, x.m), x.e)
                      ELSE FRound(-1, LSub(x.m, one), x.e)

\* x * k for a float x and an integer k, |k| < 2^15.
FMulInt(x, k) ==
    IF x.sign = 0 \/ k = 0 THEN FZero
    ELSE FRound(x.sign * Sgn(k), LMulSmall(x.m, Abs(k)), x.e)

\* The integer part of |x| and whether x has a fractional part (x.e < 0).
FSplit(x) ==
    IF x.sign = 0 THEN [whole |-> 0, frac |-> FALSE]
    ELSE IF -x.e >= 75 THEN [whole |-> 0, frac |-> TRUE]
    ELSE LET sh == LShrSticky(x.m, -x.e)
         IN  [whole |-> LToInt(sh.q), frac |-> sh.sticky]

\* math.ceil(x)
MathCeil(x) ==
    LET p == FSplit(x)
    IN  IF x.sign >= 0 THEN p.whole + (IF p.frac THEN 1 ELSE 0) ELSE -p.whole

\* int(x): truncation toward zero
IntTrunc(x) == x.sign * FSplit(x).whole

\* Mutant of CeilMaxElapsed: the share already used up is taken for the share
\* that remains, math.ceil(shelf * (target/100.0)).
CeilElapsedOfTargetShare(shelf, target) ==
    MathCeil(FMulInt(FDiv100(target), shelf))

\* osg_bot.py: math.ceil(shelf * (1 - target/100.0))
CeilMaxElapsed(shelf, target) ==
    MathCeil(FMulInt(FOneMinus(FDiv100(target)), shelf))

\* osg_orders_bot.py: int((100 - TARGET_OSG_PERCENT) / 100 * SHELF_LIFE_DAYS)
TruncMaxAge(shelf, target) ==
    IntTrunc(FMulInt(FDiv100(100 - target), shelf))

(***************************************************************************)
(* Calendar dates (Python datetime): proleptic Gregorian ordinals.         *)
(***************************************************************************)
IsLeap(y) == y % 4 = 0 /\ (y % 100 # 0 \/ y % 400 = 0)

DaysInMonth(y, m) ==
    IF m = 2 THEN (IF IsLeap(y) THEN 29 ELSE 28)
    ELSE IF m \in {4, 6, 9, 11} THEN 30 ELSE 31

\* Days in the year before the first of month m, for a common year.
DaysBeforeMonthTable == <<0, 31, 59, 90, 120, 151, 181, 212, 243, 273, 304, 334>>

DaysBeforeMonth(y, m) ==
    DaysBeforeMonthTable[m] + (IF m > 2 /\ IsLeap(y) THEN 1 ELSE 0)

DaysBeforeYear(y) ==
    LET p == y - 1 IN p * 365 + (p \div 4) - (p \div 100) + (p \div 400)

\* date(y, m, d).toordinal()
Ymd2Ord(y, m, d) == DaysBeforeYear(y) + DaysBeforeMonth(y, m) + d

\* date.fromordinal(n) as [y, m, d]
Ord2Ymd(n) ==
    LET n0 == n - 1
        n400 == n0 \div 146097
        r400 == n0 % 146097
        n100 == r400 \div 36524
        r100 == r400 % 36524
        n4 == r100 \div 1461
        r4 == r100 % 1461
        n1 == r4 \div 365
        r1 == r4 % 365
        year == n400 * 400 + 1 + n100 * 100 + n4 * 4 + n1
    IN  IF n1 = 4 \/ n100 = 4
        THEN [y |-> year - 1, m |-> 12, d |-> 31]
        ELSE LET leapyear == n1 = 3 /\ (n4 # 24 \/ n100 = 3)
                 lp == IF leapyear THEN 1 ELSE 0
                 guess == (r1 + 50) \div 32
                 before == DaysBeforeMonthTable[guess] + (IF guess > 2 THEN lp ELSE 0)
                 month == IF before > r1 THEN guess - 1 ELSE guess
                 preceding == DaysBeforeMonthTable[month] + (IF month > 2 THEN lp ELSE 0)
             IN  [y |-> year, m |-> month, d |-> r1 - preceding + 1]

\* date.min and date.max
MinOrd == Ymd2Ord(1, 1, 1)

MaxOrd == Ymd2Ord(9999, 12, 31)

\* date.weekday(): Monday is 0, Sunday is 6.
Weekday(n) == (n + 6) % 7

\* The outcome of an operation that returns a date or raises.
Returned(n) == [err |-> "none", ord |-> n]

Raised(e) == [err |-> e, ord |-> 0]

\* dt + timedelta(days=k): OverflowError outside date.min..date.max.
AddDays(n, k) ==
    IF n + k >= MinOrd /\ n + k <= MaxOrd THEN Returned(n + k)
    ELSE Raised("OverflowError")

Max(a, b) == IF a >= b THEN a ELSE b

(***************************************************************************)
(* Strings are sequences of one-character strings.                         *)
(***************************************************************************)
Digits == <<"0", "1", "2", "3", "4", "5", "6", "7", "8", "9">>

IsDigit(c) == \E i \in 1..10 : Digits[i] = c

DigitVal(c) == (CHOOSE i \in 1..10 : Digits[i] = c) - 1

DigitChar(d) == Digits[d + 1]

\* int(s) for a string of decimal digits
RECURSIVE DigitsVal(_)
DigitsVal(s) ==
    IF s = <<>> THEN 0
    ELSE 10 * DigitsVal(SubSeq(s, 1, Len(s) - 1)) + DigitVal(s[Len(s)])

AllDigits(s) == \A i \in 1..Len(s) : IsDigit(s[i])

\* str(n) for n >= 0
RECURSIVE IntStr(_)
IntStr(n) ==
    IF n < 10 THEN <<DigitChar(n)>>
    ELSE Append(IntStr(n \div 10), DigitChar(n % 10))

\* n as two digits (%d, %m)
TwoDigits(n) == <<DigitChar(n \div 10), DigitChar(n % 10)>>

IsSpace(c) == c = " "

\* str.strip()
RECURSIVE Strip(_)
Strip(s) ==
    IF s = <<>> THEN s
    ELSE IF IsSpace(s[1]) THEN Strip(Tail(s))
    ELSE IF IsSpace(s[Len(s)]) THEN Strip(SubSeq(s, 1, Len(s) - 1))
    ELSE s

\* The index of the first c in s, 0 when there is none.
IndexOf(s, c) ==
    IF \E i \in 1..Len(s) : s[i] = c
    THEN CHOOSE i \in 1..Len(s) : s[i] = c /\ \A j \in 1..(i - 1) : s[j] # c
    ELSE 0

(***************************************************************************)
(* datetime.strptime for the formats the bots use: three fields among      *)
(* %d %m %Y %y with one literal separator between them.  Each directive    *)
(* is the regular expression of CPython's _strptime; -1 is no match.       *)
(***************************************************************************)
NonZeroDigit(c) == IsDigit(c) /\ c # "0"

\* %d: 3[0-1]|[1-2]\d|0[1-9]|[1-9]| [1-9]
MatchDay(f) ==
    IF Len(f) = 2
    THEN IF \/ (f[1] = "3" /\ f[2] \in {"0", "1"})
            \/ (f[1] \in {"1", "2"} /\ IsDigit(f[2]))
            \/ (f[1] \in {"0", " "} /\ NonZeroDigit(f[2]))
         THEN (IF f[1] = " " THEN 0 ELSE 10 * DigitVal(f[1])) + DigitVal(f[2])
         ELSE -1
    ELSE IF Len(f) = 1 /\ NonZeroDigit(f[1]) THEN DigitVal(f[1])
    ELSE -1

\* %m: 1[0-2]|0[1-9]|[1-9]
MatchMonth(f) ==
    IF Len(f) = 2
    THEN IF \/ (f[1] = "1" /\ f[2] \in {"0", "1", "2"})
            \/ (f[1] = "0" /\ NonZeroDigit(f[2]))
         THEN DigitsVal(f)
         ELSE -1
    ELSE IF Len(f) = 1 /\ NonZeroDigit(f[1]) THEN DigitVal(f[1])
    ELSE -1

\* %Y: \d\d\d\d
MatchYear4(f) == IF Len(f) = 4 /\ AllDigits(f) THEN DigitsVal(f) ELSE -1

\* %y: \d\d, 00..68 are 2000..2068 and 69..99 are 1969..1999
MatchYear2(f) ==
    IF Len(f) = 2 /\ AllDigits(f)
    THEN (IF DigitsVal(f) <= 68 THEN 2000 ELSE 1900) + DigitsVal(f)
    ELSE -1

MatchField(directive, f) ==
    CASE directive = "d" -> MatchDay(f)
      [] directive = "m" -> MatchMonth(f)
      [] directive = "Y" -> MatchYear4(f)
      [] directive = "y" -> MatchYear2(f)

\* The value matched for directive in the three matched fields.
FieldOf(fmt, vals, directives) ==
    vals[CHOOSE i \in 1..3 : fmt.fields[i] \in directives]

NoDate == [ok |-> FALSE, ord |-> 0]

\* datetime.strptime(s, fmt): the date, or NoDate where it raises ValueError
\* (no match, unconverted data, year 0, a day the month does not have).
StrpTime(s, fmt) ==
    LET i1 == IndexOf(s, fmt.sep)
        rest1 == SubSeq(s, i1 + 1, Len(s))
        i2 == IndexOf(rest1, fmt.sep)
        f1 == SubSeq(s, 1, i1 - 1)
        f2 == SubSeq(rest1, 1, i2 - 1)
        f3 == SubSeq(rest1, i2 + 1, Len(rest1))
    IN  IF i1 = 0 \/ i2 = 0 THEN NoDate
        ELSE LET vals == <<MatchField(fmt.fields[1], f1),
                           MatchField(fmt.fields[2], f2),
                           MatchField(fmt.fields[3], f3)>>
                 y == FieldOf(fmt, vals, {"Y", "y"})
                 m == FieldOf(fmt, vals, {"m"})
                 d == FieldOf(fmt, vals, {"d"})
             IN  IF \E k \in 1..3 : vals[k] = -1 THEN NoDate
                 ELSE IF y < 1 \/ d > DaysInMonth(y, m) THEN NoDate
                 ELSE [ok |-> TRUE, ord |-> Ymd2Ord(y, m, d)]

Fmt(a, b, c, sep) == [fields |-> <<a, b, c>>, sep |-> sep]

\* date.strftime('%d.%m.%Y').  %Y is the C library's: glibc prints the year
\* unpadded, the Windows and macOS libraries pad it to four digits.
StrfDMY(n, padYear) ==
    LET ymd == Ord2Ymd(n)
        yr == IntStr(ymd.y)
        year == IF padYear /\ Len(yr) < 4
                THEN [i \in 1..(4 - Len(yr)) |-> "0"] \o yr
                ELSE yr
    IN  TwoDigits(ymd.d) \o <<".">> \o TwoDigits(ymd.m) \o <<".">> \o year

(***************************************************************************)
(* osg_orders_bot.py: parse_date                                           *)
(***************************************************************************)
formats ==
    << Fmt("d", "m", "Y", "."),
       Fmt("Y", "m", "d", "-"),
       Fmt("d", "m", "Y", "-"),
       Fmt("d", "m", "Y", "/"),
       Fmt("d", "m", "y", ".") >>

\* The first of fmts[i..] that parses s.
RECURSIVE FirstMatch(_, _, _)
FirstMatch(s, fmts, i) ==
    IF i > Len(fmts) THEN NoDate
    ELSE IF StrpTime(s, fmts[i]).ok THEN StrpTime(s, fmts[i])
    ELSE FirstMatch(s, fmts, i + 1)

\* parse_date(date_str) for a string: its date, or NoDate for None.
parse_date(date_str) ==
    IF date_str = <<>> THEN NoDate
    ELSE LET s == Strip(date_str)
         IN  IF s = <<>> THEN NoDate ELSE FirstMatch(s, formats, 1)

(***************************************************************************)
(* State.                                                                  *)
(*   pc      where the process is: "imported" (module loaded, main() not   *)
(*           yet run), "polling" (handlers served), "crashed", or "calc"   *)
(*           (the pure functions applied to drawn inputs, SpecCalc)        *)
(*   token   TELEGRAM_BOT_TOKEN is non-empty                               *)
(*   cfg     SHELF_LIFE_DAYS, TARGET_OSG_PERCENT, SAFETY_BUFFER_DAYS       *)
(*   padYear the platform's strftime pads %Y to four digits                *)
(*   cache   CONTRACTORS_CACHE: contractor -> [delivery |-> string]        *)
(*   reply   what the last handler sent back (or that it raised)           *)
(*   arg     SpecCalc: the date the functions are applied to               *)
(*   res     SpecCalc: the last application and what it gave               *)
(***************************************************************************)
VARIABLES pc, token, cfg, padYear, cache, reply, arg, res

vars == <<pc, token, cfg, padYear, cache, reply, arg, res>>

Config(shelf, target, buffer) ==
    [shelf |-> shelf, target |-> target, buffer |-> buffer]

(***************************************************************************)
(* osg_bot.py                                                              *)
(***************************************************************************)
\* Mutant of resolve_delivery_date_from_pick: Wednesday deferred as well,
\* wd >= 2.
resolve_defers_wednesday(input_date_pick) ==
    LET wd == Weekday(input_date_pick)
        delta == IF wd # 6 THEN 7 - wd ELSE 1
        delivery_local == IF wd >= 2 THEN AddDays(input_date_pick, delta)
                          ELSE Returned(input_date_pick)
    IN  IF delivery_local.err # "none" THEN delivery_local
        ELSE LET d == Ord2Ymd(delivery_local.ord)
             IN  Returned(Ymd2Ord(d.y, d.m, d.d))

\* The date of the datetime the function returns (its time is always 12:00
\* Moscow), or the OverflowError of the addition.
resolve_delivery_date_from_pick(input_date_pick) ==
    LET wd == Weekday(input_date_pick)
        delta == IF wd # 6 THEN 7 - wd ELSE 1
        delivery_local == IF wd >= 3 THEN AddDays(input_date_pick, delta)
                          ELSE Returned(input_date_pick)
    IN  IF delivery_local.err # "none" THEN delivery_local
        ELSE LET d == Ord2Ymd(delivery_local.ord)
             IN  Returned(Ymd2Ord(d.y, d.m, d.d))

\* Mutant of allowed_age: the clamp max(0, ...) left out.
allowed_age_unclamped(shelf, target, safety) ==
    CeilMaxElapsed(shelf, target) - safety

\* Mutant of allowed_age: the safety days added to the age, not taken off.
allowed_age_plus_safety(shelf, target, safety) ==
    Max(0, CeilMaxElapsed(shelf, target) + safety)

\* allowed_age of min_prod_date
allowed_age(shelf, target, safety) ==
    Max(0, CeilMaxElapsed(shelf, target) - safety)

min_prod_date(delivery, shelf, target, safety) ==
    AddDays(delivery, -allowed_age(shelf, target, safety))

(***************************************************************************)
(* osg_orders_bot.py                                                       *)
(***************************************************************************)
\* max_age_days of min_production_date_for_osg under the given globals
max_age_days(SHELF_LIFE_DAYS, TARGET_OSG_PERCENT, SAFETY_BUFFER_DAYS) ==
    Max(0, TruncMaxAge(SHELF_LIFE_DAYS, TARGET_OSG_PERCENT) - SAFETY_BUFFER_DAYS)

\* min_production_date_for_osg under the given globals
MinProductionDateUnder(delivery_dt, c) ==
    AddDays(delivery_dt, -max_age_days(c.shelf, c.target, c.buffer))

min_production_date_for_osg(delivery_dt) ==
    MinProductionDateUnder(delivery_dt, cfg)

\* The character U+2014 the loader stores for an empty delivery cell.
EmDash == "u2014"

\* The header cell after h.strip().lower()
HeaderNorm(h) ==
    CASE h \in {"Contractor", " contractor "} -> "contractor"
      [] h \in {"DeliveryDate", "deliverydate"} -> "deliverydate"
      [] OTHER -> h

\* list.index: the first position of x in s, 0 when absent (ValueError)
ListIndex(s, x) == IndexOf(s, x)

\* The loop over the data rows, data being the dict built so far.
RECURSIVE LoadRows(_, _, _, _)
LoadRows(rows, idx_contractor, idx_date, data) ==
    IF rows = <<>> THEN data
    ELSE LET row == Head(rows)
             contractor == Strip(row[idx_contractor])
             delivery == Strip(row[idx_date])
             entry == [delivery |-> IF delivery = <<>> THEN <<EmDash>> ELSE delivery]
             skip == Len(row) < Max(idx_contractor, idx_date) \/ contractor = <<>>
             next == IF skip THEN data
                     ELSE [k \in DOMAIN data \cup {contractor} |->
                              IF k = contractor THEN entry ELSE data[k]]
         IN  LoadRows(Tail(rows), idx_contractor, idx_date, next)

EmptyDict == [k \in {} |-> [delivery |-> <<>>]]

\* load_contractors_from_sheet on the sheet's values (the header row first):
\* the dict, or the KeyError of a header without the two columns.
load_contractors_from_sheet(values) ==
    IF values = <<>> THEN [err |-> "none", data |-> EmptyDict]
    ELSE LET headers == [i \in 1..Len(values[1]) |-> HeaderNorm(values[1][i])]
             idx_contractor == ListIndex(headers, "contractor")
             idx_date == ListIndex(headers, "deliverydate")
         IN  IF idx_contractor = 0 \/ idx_date = 0
             THEN [err |-> "KeyError", data |-> EmptyDict]
             ELSE [err |-> "none",
                   data |-> LoadRows(Tail(values), idx_contractor, idx_date, EmptyDict)]

\* Code-point order of the characters used here.
CharOrder ==
    <<" ", "-", ".", "/", "0", "1", "2", "3", "4", "5", "6", "7", "8", "9",
      "A", "B", "Z", "n", "o", "p", "x", EmDash>>

CodePoint(c) == CHOOSE i \in 1..Len(CharOrder) : CharOrder[i] = c

\* a <= b for Python strings
RECURSIVE StrLE(_, _)
StrLE(a, b) ==
    IF a = <<>> THEN TRUE
    ELSE IF b = <<>> THEN FALSE
    ELSE IF a[1] # b[1] THEN CodePoint(a[1]) < CodePoint(b[1])
    ELSE StrLE(Tail(a), Tail(b))

\* sorted(names)
RECURSIVE SortedNames(_)
SortedNames(names) ==
    IF names = {} THEN <<>>
    ELSE LET least == CHOOSE x \in names : \A y \in names : StrLE(x, y)
         IN  <<least>> \o SortedNames(names \ {least})

\* _contractors_keyboard: the callback data of the buttons, in order
contractors_keyboard ==
    IF DOMAIN cache = {} THEN << <<"n", "o", "o", "p">> >>
    ELSE SortedNames(DOMAIN cache)

(***************************************************************************)
(* Inputs.                                                                 *)
(***************************************************************************)
MaxRows == 2

DefaultShelfLifeDays == 360

DefaultTargetOsgPercent == 80

DefaultSafetyBufferDays == 3

Noop == <<"n", "o", "o", "p">>

D2111 == <<"2", "1", ".", "1", "1", ".", "2", "0", "2", "5">>

\* Data rows of the sheet: contractor cell, delivery date cell.
DataRows ==
    { << <<" ", "A">>, D2111 >>,
      << <<"A">>, <<"3", "1", ".", "0", "2", ".", "2", "0", "2", "5">> >>,
      << <<"A">>, <<>> >>,
      << <<"B">>, <<"1", "0", ".", "0", "3", ".", "1", "0", "0", "0">> >>,
      << <<"B">>, <<"0", "5", ".", "0", "1", ".", "0", "0", "0", "1">> >>,
      << Noop, <<"2", "0", "2", "5", "-", "1", "1", "-", "2", "1">> >>,
      << <<>>, D2111 >> }

GoodHeader == <<"Contractor", "DeliveryDate">>

\* What ws.get_all_values() can return: nothing, a sheet without the
\* Contractor column, or the two columns and up to MaxRows data rows.
SheetValues ==
    { <<>>, << <<"Name", "DeliveryDate">>, << <<"A">>, D2111 >> >> } \cup
    { <<GoodHeader>> \o rows :
          rows \in UNION { [1..n -> DataRows] : n \in 0..MaxRows } }

\* The data of a pressed inline button.
CallbackData == { <<"A">>, <<"B">>, <<"Z">>, Noop }

\* An environment variable: unset, an integer literal, or other text.
Unset == [kind |-> "unset", val |-> 0]

EnvInt(n) == [kind |-> "int", val |-> n]

EnvText == [kind |-> "text", val |-> 0]

\* The three settings SHELF_LIFE_DAYS, TARGET_OSG_PERCENT, SAFETY_BUFFER_DAYS
Environments ==
    { <<Unset, Unset, Unset>>,
      <<EnvInt(-5), Unset, Unset>>,
      <<Unset, EnvInt(150), Unset>>,
      <<Unset, EnvText, Unset>> }

\* int(os.getenv(name, default))
EnvValue(e, default) == IF e.kind = "unset" THEN default ELSE e.val

OrdersDefaults ==
    Config(DefaultShelfLifeDays, DefaultTargetOsgPercent, DefaultSafetyBufferDays)

NoReply == [kind |-> "none"]

NoRes == [kind |-> "none"]

(***************************************************************************)
(* The orders bot.  Init is the state once the module is imported: a       *)
(* setting that is no integer literal has raised ValueError by then.       *)
(***************************************************************************)
Init ==
    \E env \in Environments :
        /\ pc = IF \E i \in 1..3 : env[i].kind = "text" THEN "crashed" ELSE "imported"
        /\ cfg = Config(EnvValue(env[1], DefaultShelfLifeDays),
                        EnvValue(env[2], DefaultTargetOsgPercent),
                        EnvValue(env[3], DefaultSafetyBufferDays))
        /\ token \in BOOLEAN
        /\ padYear \in BOOLEAN
        /\ cache = EmptyDict
        /\ reply = NoReply
        /\ arg = 0
        /\ res = NoRes

\* main(): RuntimeError without a token, else the handlers are polled.
Main ==
    /\ pc = "imported"
    /\ pc' = IF token THEN "polling" ELSE "crashed"
    /\ UNCHANGED <<token, cfg, padYear, cache, reply, arg, res>>

\* start (also /help): the greeting, which quotes the parameters.
StartBody ==
    /\ reply' = [kind |-> "start", target |-> cfg.target,
                 shelf |-> cfg.shelf, buffer |-> cfg.buffer]
    /\ UNCHANGED cache

MenuBody ==
    /\ reply' = [kind |-> "menu"]
    /\ UNCHANGED cache

\* debug: the sheet opens or the access raises.
DebugBody ==
    /\ \E ok \in BOOLEAN :
          reply' = [kind |-> IF ok THEN "debug_ok" ELSE "debug_error"]
    /\ UNCHANGED cache

\* What _gs_open_worksheet() and ws.get_all_values() give the loader: the
\* access raises, or the values of the sheet.
ApiError == [err |-> "APIError", values |-> <<>>]

SheetReads == {ApiError} \cup { [err |-> "none", values |-> v] : v \in SheetValues }

\* The exception of a reply_text that could not be sent.
SendError == "TimedOut"

\* The outcome of load_contractors_from_sheet() for what the sheet gave.
LoadOutcome(read) ==
    IF read.err # "none" THEN [err |-> read.err, data |-> EmptyDict]
    ELSE load_contractors_from_sheet(read.values)

\* Mutant of ReloadOn: the loaded records written into the existing dict
\* (CONTRACTORS_CACHE.update) instead of the name being rebound.
ReloadOnUpdatingInPlace(read) ==
    LET loaded == LoadOutcome(read)
    IN  IF loaded.err # "none"
        THEN /\ reply' = [kind |-> "load_error", error |-> loaded.err]
             /\ UNCHANGED cache
        ELSE /\ cache' = [k \in DOMAIN cache \cup DOMAIN loaded.data |->
                             IF k \in DOMAIN loaded.data THEN loaded.data[k]
                             ELSE cache[k]]
             /\ \E sent \in BOOLEAN :
                   reply' = IF sent
                            THEN [kind |-> "loaded",
                                  n |-> Cardinality(DOMAIN cache \cup DOMAIN loaded.data)]
                            ELSE [kind |-> "load_error", error |-> SendError]

\* The try block of reload_contractors for what the sheet gave.  When the
\* loader raises, the assignment never runs and the exception is reported.
\* Otherwise the dict the loader returned is bound to CONTRACTORS_CACHE and
\* its size is reported; that reply is awaited inside the try block, so when
\* sending it raises (a Telegram timeout) the except branch reports a load
\* error although the cache has been replaced.
ReloadOn(read) ==
    LET loaded == LoadOutcome(read)
    IN  IF loaded.err # "none"
        THEN /\ reply' = [kind |-> "load_error", error |-> loaded.err]
             /\ UNCHANGED cache
        ELSE /\ cache' = loaded.data
             /\ \E sent \in BOOLEAN :
                   reply' = IF sent
                            THEN [kind |-> "loaded", n |-> Cardinality(DOMAIN loaded.data)]
                            ELSE [kind |-> "load_error", error |-> SendError]

\* reload_contractors (the command, or the refresh caption through
\* on_any_text): the sheet access raises, or the dict loaded from its values
\* replaces the cache; a KeyError of the loader is reported likewise, and so
\* is a failure to send the success reply.
ReloadBody == \E read \in SheetReads : ReloadOn(read)

ShowBody ==
    /\ reply' = IF DOMAIN cache = {} THEN [kind |-> "cache_empty"]
                ELSE [kind |-> "choose", buttons |-> contractors_keyboard]
    /\ UNCHANGED cache

\* Mutant of ButtonBody: the check for an unrecognised date left out, the
\* calculation run on whatever parse_date gave.
ButtonBodyUnchecked(contractor) ==
    LET delivery_str == IF contractor \in DOMAIN cache
                        THEN cache[contractor].delivery ELSE <<>>
        delivery_dt == parse_date(delivery_str)
        min_prod == min_production_date_for_osg(delivery_dt.ord)
    IN  /\ reply' =
              IF contractor = <<"n", "o", "o", "p">>
              THEN [kind |-> "silent", contractor |-> contractor]
              ELSE IF min_prod.err # "none"
              THEN [kind |-> "raised", error |-> min_prod.err]
              ELSE [kind |-> "result", contractor |-> contractor,
                    delivery_dt |-> delivery_dt.ord,
                    min_prod |-> min_prod.ord,
                    delivery_text |-> StrfDMY(delivery_dt.ord, padYear),
                    min_prod_text |-> StrfDMY(min_prod.ord, padYear)]
        /\ UNCHANGED cache

\* button_callback for the pressed button's data
ButtonBody(contractor) ==
    LET delivery_str == IF contractor \in DOMAIN cache
                        THEN cache[contractor].delivery ELSE <<>>
        delivery_dt == parse_date(delivery_str)
        min_prod == min_production_date_for_osg(delivery_dt.ord)
    IN  /\ reply' =
              IF contractor = Noop THEN [kind |-> "silent", contractor |-> contractor]
              ELSE IF ~delivery_dt.ok
              THEN [kind |-> "not_recognized", contractor |-> contractor,
                    delivery_str |-> delivery_str]
              ELSE IF min_prod.err # "none"
              THEN [kind |-> "raised", error |-> min_prod.err]
              ELSE [kind |-> "result", contractor |-> contractor,
                    delivery_dt |-> delivery_dt.ord,
                    min_prod |-> min_prod.ord,
                    delivery_text |-> StrfDMY(delivery_dt.ord, padYear),
                    min_prod_text |-> StrfDMY(min_prod.ord, padYear)]
        /\ UNCHANGED cache

UnknownTextBody ==
    /\ reply' = [kind |-> "unknown_text"]
    /\ UNCHANGED cache

Rest == UNCHANGED <<pc, token, cfg, padYear, arg, res>>

Start == pc = "polling" /\ StartBody /\ Rest

MenuCmd == pc = "polling" /\ MenuBody /\ Rest

Debug == pc = "polling" /\ DebugBody /\ Rest

ReloadContractors == pc = "polling" /\ ReloadBody /\ Rest

ShowContractors == pc = "polling" /\ ShowBody /\ Rest

ButtonCallback == pc = "polling" /\ (\E data \in CallbackData : ButtonBody(data)) /\ Rest

\* on_any_text: the captions of the three keyboard buttons (refresh,
\* contractors, diagnostics) run reload_contractors, show_contractors and
\* debug, which are the steps ReloadContractors, ShowContractors and Debug
\* whichever way they were asked for; any other text gets the hint.
OnAnyText == pc = "polling" /\ UnknownTextBody /\ Rest

Next ==
    \/ Main
    \/ Start
    \/ MenuCmd
    \/ Debug
    \/ ReloadContractors
    \/ ShowContractors
    \/ ButtonCallback
    \/ OnAnyText

Spec == Init /\ [][Next]_vars

(***************************************************************************)
(* The cache under refreshes and lookups.  The bot polls with the default  *)
(* settings; res records what the sheet gave the latest refresh (read) and *)
(* the values of the latest read that loaded (good, empty before any): the *)
(* loader returned when the size was reported or only the send failed.     *)
(***************************************************************************)
InitCache ==
    /\ pc = "polling"
    /\ token = TRUE
    /\ cfg = OrdersDefaults
    /\ padYear \in BOOLEAN
    /\ cache = EmptyDict
    /\ reply = NoReply
    /\ arg = 0
    /\ res = NoRes

LastGood == IF res.kind = "refresh" THEN res.good ELSE <<>>

\* The rows of the sheets refreshed from: a contractor twice (the last row
\* counts), an empty delivery cell, a second contractor, and a row too short
\* to hold the date column.
CacheRows ==
    { << <<" ", "A">>, D2111 >>,
      << <<"A">>, <<>> >>,
      << <<"B">>, <<"1", "0", ".", "0", "3", ".", "1", "0", "0", "0">> >>,
      << <<"B">> >> }

CacheReads ==
    { ApiError, [err |-> "none", values |-> <<>>],
      [err |-> "none", values |-> << <<"Name", "DeliveryDate">>, << <<"A">>, D2111 >> >>] } \cup
    { [err |-> "none", values |-> <<GoodHeader>> \o rows] :
          rows \in UNION { [1..n -> CacheRows] : n \in 0..MaxRows } }

Refresh ==
    /\ pc = "polling"
    /\ \E read \in CacheReads :
          /\ ReloadOn(read)
          /\ res' = [kind |-> "refresh", read |-> read,
                     good |-> IF reply'.kind = "loaded" \/ reply'.error = SendError
                              THEN <<read.values>> ELSE LastGood]
    /\ UNCHANGED <<pc, token, cfg, padYear, arg>>

NextCache == Refresh \/ ShowContractors \/ ButtonCallback

SpecCache == InitCache /\ [][NextCache]_vars

(***************************************************************************)
(* The pure functions applied to drawn inputs.  cfg holds the arguments    *)
(* shelf, target, safety of min_prod_date and the globals read by          *)
(* min_production_date_for_osg; arg is the pickup or delivery date.        *)
(***************************************************************************)
MaxShelf == 2

PickSpan == 20

CalcShelves == 1..MaxShelf \cup {10, 25, 100, 360}

CalcTargets == 0..99

CalcBuffers == {0, 3, 30}

\* Valid settings: shelf > 0, target in [0, 100), buffer >= 0.
CalcConfigs ==
    { Config(s, t, b) : s \in CalcShelves, t \in CalcTargets, b \in CalcBuffers }

\* Settings outside the documented ranges.
InvalidConfigs ==
    { Config(-5, 80, 3), Config(0, 80, 0), Config(360, 100, 0),
      Config(360, 150, 3), Config(360, -10, 3), Config(-5, 150, 0) }

ValidConfig(c) == c.shelf > 0 /\ c.target >= 0 /\ c.target < 100

BotDefaults == Config(360, 82, 2)

\* Runs of consecutive days: a leap day, a year's end, and both ends of the
\* range of datetime.
PickDates ==
    UNION { { base + i : i \in 0..PickSpan } :
            base \in { Ymd2Ord(2024, 2, 20), Ymd2Ord(2025, 12, 20),
                       MinOrd, MaxOrd - PickSpan } }

NormalDelivery == Ymd2Ord(2025, 11, 10)

CalcDeliveries ==
    { NormalDelivery, Ymd2Ord(2024, 3, 1), Ymd2Ord(1, 1, 20),
      Ymd2Ord(1, 3, 15), MaxOrd }

InitCalc ==
    /\ pc = "calc"
    /\ token = TRUE
    /\ padYear = FALSE
    /\ cache = EmptyDict
    /\ reply = NoReply
    /\ res = NoRes
    /\ \/ cfg = BotDefaults /\ arg \in PickDates
       \/ cfg \in CalcConfigs /\ arg = NormalDelivery
       \/ cfg \in InvalidConfigs /\ arg = NormalDelivery
       \/ cfg \in {BotDefaults, OrdersDefaults} /\ arg \in CalcDeliveries

Kept == UNCHANGED <<pc, token, cfg, padYear, cache, reply, arg>>

ApplyResolve ==
    /\ pc = "calc"
    /\ res' = [kind |-> "resolve", age |-> 0,
               out |-> resolve_delivery_date_from_pick(arg)]
    /\ Kept

ApplyMinProd ==
    /\ pc = "calc"
    /\ res' = [kind |-> "min_prod",
               age |-> allowed_age(cfg.shelf, cfg.target, cfg.buffer),
               out |-> min_prod_date(arg, cfg.shelf, cfg.target, cfg.buffer)]
    /\ Kept

ApplyMinProdOsg ==
    /\ pc = "calc"
    /\ res' = [kind |-> "osg",
               age |-> max_age_days(cfg.shelf, cfg.target, cfg.buffer),
               out |-> min_production_date_for_osg(arg)]
    /\ Kept

NextCalc == ApplyResolve \/ ApplyMinProd \/ ApplyMinProdOsg

SpecCalc == InitCalc /\ [][NextCalc]_vars

(***************************************************************************)
(* Claims about the pure functions (SpecCalc).                             *)
(***************************************************************************)
IsMonday(n) == Weekday(n) = 0

\* What C1 asks of the date returned for the pickup date arg.
FirstMondayAfter(pick, out) ==
    /\ out.err = "none"
    /\ IsMonday(out.ord)
    /\ out.ord > pick
    /\ out.ord <= pick + 7
    /\ \A n \in (pick + 1)..(out.ord - 1) : ~IsMonday(n)
    /\ (Weekday(pick) = 6 => out.ord = pick + 1 /\ pick + 1 = pick + (7 - Weekday(pick)))

\* C1: for every pickup date that is a Thursday, Friday, Saturday or Sunday,
\* resolve_delivery_date_from_pick returns the first Monday after it (a
\* Monday, strictly later, at most 7 days later), and Sunday's +1 is the
\* general 7 - weekday.  The addition raises OverflowError for the Thursday
\* and the Friday that end year 9999, where no date is returned.
C1_EveryThuSunReturnsNextMonday ==
    (res.kind = "resolve" /\ Weekday(arg) \in 3..6) =>
        FirstMondayAfter(arg, res.out)

\* C2: for every pickup date that is a Monday, Tuesday or Wednesday,
\* resolve_delivery_date_from_pick returns the pickup's own calendar date
\* (year, month, day).
C2_MonWedUnchanged ==
    (res.kind = "resolve" /\ Weekday(arg) \in 0..2) =>
        /\ res.out = Returned(arg)
        /\ Ord2Ymd(res.out.ord) = Ord2Ymd(arg)

\* A Wednesday pickup returned as it is.
C2_Witness ==
    /\ res.kind = "resolve"
    /\ Weekday(arg) = 2
    /\ res.out = Returned(arg)

\* ceil(a / b) and floor(a / b) in exact integer arithmetic, a >= 0, b > 0
ExactCeil(a, b) == (a + b - 1) \div b

ExactFloor(a, b) == a \div b

\* C3: min_prod_date(delivery, shelf, target, safety) is delivery minus
\* max(0, ceil(shelf * (100 - target) / 100) - safety) days for every shelf
\* > 0, target in 0..99 and safety >= 0 (63 days for 360, 82, 2).
C3_CeilingVariantIsExactCeiling ==
    (res.kind = "min_prod" /\ ValidConfig(cfg) /\ cfg.buffer >= 0
        /\ res.out.err = "none") =>
        res.out.ord = arg - Max(0, ExactCeil(cfg.shelf * (100 - cfg.target), 100)
                                   - cfg.buffer)

\* C4: min_production_date_for_osg(delivery) is delivery minus
\* max(0, floor((100 - target) * shelf / 100) - buffer) days for every shelf
\* > 0, target in 0..99 and buffer >= 0 (69 days for 360, 80, 3).
C4_TruncationVariantIsExactFloor ==
    (res.kind = "osg" /\ ValidConfig(cfg) /\ cfg.buffer >= 0
        /\ res.out.err = "none") =>
        res.out.ord = arg - Max(0, ExactFloor((100 - cfg.target) * cfg.shelf, 100)
                                   - cfg.buffer)

\* The rounded max_elapsed of the calculator that res applied.
RoundedMaxElapsed ==
    IF res.kind = "min_prod" THEN CeilMaxElapsed(cfg.shelf, cfg.target)
    ELSE TruncMaxAge(cfg.shelf, cfg.target)

\* C5: in both calculators the allowed age is never negative, a returned
\* production date is never later than the delivery date, and a buffer that
\* reaches the rounded max_elapsed makes the age 0 and the result the
\* delivery date.
C5_AgeClampedAtZero ==
    (res.kind \in {"min_prod", "osg"}) =>
        /\ res.age >= 0
        /\ (res.out.err = "none" => res.out.ord <= arg)
        /\ (cfg.buffer >= RoundedMaxElapsed =>
                res.age = 0 /\ res.out = Returned(arg))

\* shelf 10, target 99, buffer 30: the ceiling variant returns the delivery
\* date.
C5_Witness ==
    /\ res.kind = "min_prod"
    /\ cfg = Config(10, 99, 30)
    /\ res.age = 0
    /\ res.out = Returned(arg)

\* The calculator that res applied, under other settings.
SameCalc(shelf, target, buffer) ==
    IF res.kind = "min_prod" THEN min_prod_date(arg, shelf, target, buffer)
    ELSE MinProductionDateUnder(arg, Config(shelf, target, buffer))

\* r1 <= r2 for two outcomes; an OverflowError lies before date.min.
NotLater(r1, r2) ==
    r1.err # "none" \/ (r2.err = "none" /\ r1.ord <= r2.ord)

\* C6: with delivery date, shelf life and buffer fixed, for targets
\* t1 <= t2 in 0..99 the production date for t2 is not earlier than the one
\* for t1 (the allowed age does not grow), in both variants.
C6_MonotoneInTarget ==
    (res.kind \in {"min_prod", "osg"} /\ ValidConfig(cfg) /\ cfg.buffer >= 0) =>
        \A t2 \in CalcTargets :
            t2 >= cfg.target =>
                NotLater(res.out, SameCalc(cfg.shelf, t2, cfg.buffer))

\* Target 80 applied, and target 82 gives a strictly later date.
C6_Witness ==
    /\ res.kind = "osg"
    /\ cfg = Config(360, 80, 3)
    /\ res.out = Returned(arg - 69)
    /\ SameCalc(360, 82, 3) = Returned(arg - 61)

\* C7: with delivery date, shelf life and target fixed, for buffers
\* b1 <= b2 (both >= 0) the production date does not move earlier, and it is
\* the delivery date once the buffer reaches the rounded max_elapsed.
C7_MonotoneInBuffer ==
    (res.kind \in {"min_prod", "osg"} /\ ValidConfig(cfg) /\ cfg.buffer >= 0) =>
        \A b2 \in CalcBuffers :
            b2 >= cfg.buffer =>
                /\ NotLater(res.out, SameCalc(cfg.shelf, cfg.target, b2))
                /\ (b2 >= RoundedMaxElapsed =>
                        SameCalc(cfg.shelf, cfg.target, b2) = Returned(arg))

\* Buffer 0 applied, buffer 3 gives a strictly later date and buffer 30
\* the delivery date.
C7_Witness ==
    /\ res.kind = "min_prod"
    /\ cfg = Config(25, 44, 0)
    /\ res.out = Returned(arg - 15)
    /\ SameCalc(25, 44, 3) = Returned(arg - 12)
    /\ SameCalc(25, 44, 30) = Returned(arg)

\* C12: for the same delivery date, shelf life, target and buffer the date
\* the ceiling variant (min_prod_date) returns and the date the truncation
\* variant (min_production_date_for_osg) returns differ by at most one day,
\* and the ceiling variant's is never the later one.
C12_VariantsWithinOneDay ==
    res.kind \in {"min_prod", "osg"} =>
        LET ceiling == min_prod_date(arg, cfg.shelf, cfg.target, cfg.buffer)
            truncation == MinProductionDateUnder(arg, cfg)
        IN  (ceiling.err = "none" /\ truncation.err = "none") =>
                /\ ceiling.ord <= truncation.ord
                /\ truncation.ord - ceiling.ord <= 1

(***************************************************************************)
(* Claims about the orders bot (Spec).                                     *)
(***************************************************************************)
\* C8: every production date the bot reports, formatted as it is shown
\* (day.month.year) and parsed again by parse_date, is the same date, and
\* the first format of the list is the one that reads it.
C8_FormattedDateParsesBack ==
    reply.kind = "result" =>
        /\ StrpTime(reply.min_prod_text, formats[1]).ok
        /\ parse_date(reply.min_prod_text) = [ok |-> TRUE, ord |-> reply.min_prod]

\* C9: with a shelf life that is not positive or a target outside [0, 100)
\* the program fails at startup: it never polls, handles no request and
\* reports no calculation.
C9_InvalidConfigNeverServes ==
    ~ValidConfig(cfg) => (pc # "polling" /\ reply = NoReply)

\* The cached delivery string of a button's data ("" when not cached).
CachedString(data) ==
    IF data \in DOMAIN cache THEN cache[data].delivery ELSE <<>>

\* Empty, the placeholder, or matching none of the fixed formats.
Unrecognisable(str) ==
    \/ str = <<>>
    \/ str = <<EmDash>>
    \/ \A i \in 1..Len(formats) : ~StrpTime(Strip(str), formats[i]).ok

\* A step of button_callback for the button data.
Pressed(data) ==
    /\ pc = "polling"
    /\ reply'.kind \in {"silent", "not_recognized", "raised", "result"}
    /\ ButtonBody(data)
    /\ Rest

\* C10 as stated: pressing any key leaves the process serving and the cache
\* unchanged; a key that is absent or whose cached string is unrecognisable
\* gets the 'date not recognized' reply (no production date); a production
\* date is reported only for a cached string that parses.
C10_EveryKeyAnswered ==
    [][\A data \in CallbackData :
          Pressed(data) =>
              /\ pc' = "polling"
              /\ cache' = cache
              /\ (Unrecognisable(CachedString(data)) =>
                      reply'.kind = "not_recognized")
              /\ (reply'.kind = "result" =>
                      ~Unrecognisable(CachedString(data)))]_vars

\* C10 as amended: the same for every key but the reserved data "noop", for
\* which the handler returns without any reply, whatever the cache holds.
C10_EveryKeyButNoopAnswered ==
    [][\A data \in CallbackData :
          Pressed(data) =>
              /\ pc' = "polling"
              /\ cache' = cache
              /\ (data = Noop => reply'.kind = "silent")
              /\ (data # Noop /\ Unrecognisable(CachedString(data)) =>
                      reply'.kind = "not_recognized")
              /\ (reply'.kind = "result" =>
                      ~Unrecognisable(CachedString(data)))]_vars

\* A cached contractor whose cell was empty was pressed and answered 'not
\* recognized'.
C10_Witness ==
    /\ reply.kind = "not_recognized"
    /\ reply.contractor \in DOMAIN cache
    /\ cache[reply.contractor].delivery = <<EmDash>>
    /\ reply.delivery_str = <<EmDash>>

(***************************************************************************)
(* Claims about the cache (SpecCache).                                     *)
(***************************************************************************)
\* The complete mapping of the latest load that succeeded, the initial empty
\* mapping before any: what the loader returns for the values recorded.
CompleteMapping ==
    IF LastGood = <<>> THEN EmptyDict
    ELSE load_contractors_from_sheet(LastGood[1]).data

CacheIsLatestCompleteLoad == cache = CompleteMapping

\* A step of the refresh handler, which alone sends these two replies.
RefreshStep == reply'.kind \in {"loaded", "load_error"} /\ res'.kind = "refresh"

\* The refresh replaces the cache by the whole mapping loaded from what the
\* sheet gave this step and reports its size (or, the send failing, a load
\* error); when the load raises the cache is the one before and the error is
\* reported.
RefreshIsWholesale ==
    LET loaded == LoadOutcome(res'.read)
    IN  IF loaded.err = "none"
        THEN /\ cache' = loaded.data
             /\ reply' \in { [kind |-> "loaded", n |-> Cardinality(DOMAIN loaded.data)],
                             [kind |-> "load_error", error |-> SendError] }
        ELSE /\ cache' = cache
             /\ reply' = [kind |-> "load_error", error |-> loaded.err]

\* A listing or a lookup leaves the cache alone and answers from the
\* complete mapping: the listing shows all its names in order, the lookup
\* of a name reads that name's record of it.
LookupSeesCompleteMapping ==
    /\ cache' = cache
    /\ reply'.kind = "cache_empty" => CompleteMapping = EmptyDict
    /\ reply'.kind = "choose" =>
          /\ CompleteMapping # EmptyDict
          /\ reply'.buttons = SortedNames(DOMAIN CompleteMapping)
    /\ reply'.kind = "not_recognized" =>
          reply'.delivery_str =
              IF reply'.contractor \in DOMAIN CompleteMapping
              THEN CompleteMapping[reply'.contractor].delivery ELSE <<>>
    /\ reply'.kind = "result" =>
          /\ reply'.contractor \in DOMAIN CompleteMapping
          /\ parse_date(CompleteMapping[reply'.contractor].delivery) =
                 [ok |-> TRUE, ord |-> reply'.delivery_dt]

\* C11: after any sequence of refreshes and lookups the cache is the initial
\* empty mapping or exactly the complete mapping returned by the most recent
\* successful load; a refresh replaces it wholesale in one step, a refresh
\* whose load raises leaves it unchanged and reports the error, and no
\* lookup or listing observes a partially built mapping.
C11_CacheIsWholeLatestLoad ==
    /\ []CacheIsLatestCompleteLoad
    /\ [][IF RefreshStep THEN RefreshIsWholesale ELSE LookupSeesCompleteMapping]_vars

\* A refresh that raised KeyError after a load of two contractors: the two
\* records are still cached.
C11_Witness ==
    /\ res.kind = "refresh"
    /\ res.read.err = "none"
    /\ load_contractors_from_sheet(res.read.values).err = "KeyError"
    /\ reply = [kind |-> "load_error", error |-> "KeyError"]
    /\ res.good # <<>>
    /\ Len(res.good[1]) = 3
    /\ Cardinality(DOMAIN cache) = 2

====
